---- MODULE Spec2Model ----
(***************************************************************************)
(* Model of script.js: the touch-driven bubble simulation.                 *)
(*                                                                         *)
(* Every real number of the program (coordinates, radii, velocities, hue,  *)
(* alpha) is a fixed-point integer in units of 1/SCALE; a product or a     *)
(* quotient is rounded to the nearest unit. Ripple delays are whole ticks. *)
(* Bubble objects live in a heap (obj) keyed by identity, because the      *)
(* program holds the same object in the bubbles array and in the           *)
(* growingBubble reference.                                                *)
(*                                                                         *)
(* Three variables observe the run and never influence it: last (the       *)
(* handler that ran last, what it did, and for a frame the calls it made   *)
(* in order), bounced (the bubbles that have taken a bounce branch) and    *)
(* hist (the frame count at which each bubble was created and at which the *)
(* last pop happened).                                                     *)
(***************************************************************************)
EXTENDS Integers, Sequences, FiniteSets, TLC

VARIABLES bubbles, obj, growingBubble, ripples, nextId, fuel, last, bounced, hist

vars == <<bubbles, obj, growingBubble, ripples, nextId, fuel, last, bounced, hist>>

(***************************************************************************)
(* Numbers                                                                 *)
(***************************************************************************)
SCALE == 100

\* Math.random() is drawn in units of 1/RANDOM_UNIT, from [0, 1).
RANDOM_UNIT == 10000

Null == 0

Infinity == "Infinity"

Max(a, b) == IF a >= b THEN a ELSE b

Min(a, b) == IF a <= b THEN a ELSE b

\* n / d rounded to the nearest integer, halves away from zero (d > 0).
Rnd(n, d) == IF n >= 0 THEN (2 * n + d) \div (2 * d) ELSE -((2 * (-n) + d) \div (2 * d))

\* a * b of two fixed-point numbers.
Mul(a, b) == Rnd(a * b, SCALE)

\* a / b of two fixed-point numbers (b # 0).
Div(a, b) == IF b > 0 THEN Rnd(a * SCALE, b) ELSE Rnd(-(a * SCALE), -b)

RECURSIVE SqrtIter(_, _)
SqrtIter(n, x) ==
    LET y == (x + n \div x) \div 2
    IN  IF y >= x THEN x ELSE SqrtIter(n, y)

\* floor of the square root
ISqrt(n) == IF n = 0 THEN 0 ELSE SqrtIter(n, n)

\* Math.hypot, to the nearest unit
Hypot(dx, dy) ==
    LET n == dx * dx + dy * dy
        f == ISqrt(n)
    IN  IF n - f * f > f THEN f + 1 ELSE f

\* Math.hypot(dx, dy) <= r, decided without rounding (r >= 0)
HypotLE(dx, dy, r) == dx * dx + dy * dy <= r * r

\* Math.hypot(dx, dy) >= r, decided without rounding (r >= 0)
HypotGE(dx, dy, r) == dx * dx + dy * dy >= r * r

RemoveAt(s, i) == [k \in 1..(Len(s) - 1) |-> IF k < i THEN s[k] ELSE s[k + 1]]

Range(s) == {s[k] : k \in 1..Len(s)}

(***************************************************************************)
(* Program constants                                                       *)
(***************************************************************************)
BUBBLE_BUOYANCY == 0

BUBBLE_DRAG == 100

BUBBLE_RESTITUTION == 99

\* canvas.width and canvas.height, set from the window by resizeCanvas
canvasWidth == 30 * SCALE

canvasHeight == 24 * SCALE

(***************************************************************************)
(* Inputs                                                                  *)
(***************************************************************************)
\* touch.clientX, touch.clientY
TouchPoints == { <<8 * SCALE, 8 * SCALE>>, <<13 * SCALE, 8 * SCALE>> }

\* value of Math.random() for the hue of a new bubble: the hue starts at
\* 359.93 and wraps in the first tick of free flight
HueRandoms == {9998}

\* values of Math.random() for the drift of a released bubble
DriftRandoms == {0, 7500}

(***************************************************************************)
(* Exploration budgets: how many bubbles the touches may still create, how *)
(* many touchmove events may still grow a bubble and how many frames may   *)
(* still run. Two scenarios are explored from the same initial program     *)
(* state: several short gestures, and one gesture held for a long time.    *)
(***************************************************************************)
WideCreates == 2

WideMoves == 1

WideTicks == 3

DeepMoves == 292

DeepTicks == 2

Budgets ==
    { [scenario |-> "gestures", creates |-> WideCreates, moves |-> WideMoves,
       ticks |-> WideTicks],
      [scenario |-> "hold", creates |-> 1, moves |-> DeepMoves, ticks |-> DeepTicks] }

(***************************************************************************)
(* class Ripple                                                            *)
(***************************************************************************)
Ripple(x, y, maxRadius, expandSpeed, fadeSpeed, hue, delay) ==
    [x |-> x, y |-> y, radius |-> 0, maxRadius |-> maxRadius,
     expandSpeed |-> expandSpeed, fadeSpeed |-> fadeSpeed, hue |-> hue,
     delay |-> delay, alpha |-> 1 * SCALE, done |-> FALSE]

\* update() that also fades while the delay runs
RippleUpdateFadesInDelay(r) ==
    IF r.delay > 0
    THEN [r EXCEPT !.delay = r.delay - 1, !.alpha = r.alpha - r.fadeSpeed]
    ELSE LET r1 == [r EXCEPT !.radius = r.radius + r.expandSpeed,
                             !.alpha = r.alpha - r.fadeSpeed]
         IN  IF r1.alpha <= 0 THEN [r1 EXCEPT !.done = TRUE] ELSE r1

\* update() that marks done only below 0
RippleUpdateDoneBelowZero(r) ==
    IF r.delay > 0
    THEN [r EXCEPT !.delay = r.delay - 1]
    ELSE LET r1 == [r EXCEPT !.radius = r.radius + r.expandSpeed,
                             !.alpha = r.alpha - r.fadeSpeed]
         IN  IF r1.alpha < 0 THEN [r1 EXCEPT !.done = TRUE] ELSE r1

RippleUpdate(r) ==
    IF r.delay > 0
    THEN [r EXCEPT !.delay = r.delay - 1]
    ELSE LET r1 == [r EXCEPT !.radius = r.radius + r.expandSpeed,
                             !.alpha = r.alpha - r.fadeSpeed]
         IN  IF r1.alpha <= 0 THEN [r1 EXCEPT !.done = TRUE] ELSE r1

(***************************************************************************)
(* class Bubble                                                            *)
(***************************************************************************)
InitialRadius == 5 * SCALE

InitialVy == -2 * SCALE

BubbleMaxRadius == 150 * SCALE

InitialHue(rnd) == Rnd(rnd * 360 * SCALE, RANDOM_UNIT)

Bubble(x, y, rnd) ==
    [x |-> x, y |-> y, radius |-> InitialRadius, vx |-> 0, vy |-> InitialVy,
     growing |-> TRUE, maxRadius |-> BubbleMaxRadius, popped |-> FALSE,
     hue |-> InitialHue(rnd)]

\* this.radius += 0.5 of Bubble.update
UpdateGrowth == 50

HueStep == 10

HueCycle == 360 * SCALE

\* Grow with the maximum tested by > instead of >=
GrowStrict(b) ==
    LET b1 == [b EXCEPT !.radius = b.radius + UpdateGrowth]
    IN  IF b1.radius > b1.maxRadius THEN [b1 EXCEPT !.popped = TRUE] ELSE b1

\* Grow by a quarter of a unit per frame
GrowSlowly(b) ==
    LET b1 == [b EXCEPT !.radius = b.radius + SCALE \div 4]
    IN  IF b1.radius >= b1.maxRadius THEN [b1 EXCEPT !.popped = TRUE] ELSE b1

Grow(b) ==
    LET b1 == [b EXCEPT !.radius = b.radius + UpdateGrowth]
    IN  IF b1.radius >= b1.maxRadius THEN [b1 EXCEPT !.popped = TRUE] ELSE b1

Integrate(b) ==
    LET vy1 == b.vy + BUBBLE_BUOYANCY
        vx2 == Mul(b.vx, BUBBLE_DRAG)
        vy2 == Mul(vy1, BUBBLE_DRAG)
        h1  == b.hue + HueStep
    IN  [b EXCEPT !.vx = vx2, !.vy = vy2, !.x = b.x + vx2, !.y = b.y + vy2,
                  !.hue = IF h1 >= HueCycle THEN h1 - HueCycle ELSE h1]

HitsSideWall(b) == b.x - b.radius <= 0 \/ b.x + b.radius >= canvasWidth

HitsTopOrBottom(b) == b.y - b.radius <= 0 \/ b.y + b.radius >= canvasHeight

BounceX(b) ==
    IF HitsSideWall(b)
    THEN [b EXCEPT !.x = Max(b.radius, Min(canvasWidth - b.radius, b.x)),
                   !.vx = Mul(-b.vx, BUBBLE_RESTITUTION)]
    ELSE b

BounceY(b) ==
    IF HitsTopOrBottom(b)
    THEN [b EXCEPT !.y = Max(b.radius, Min(canvasHeight - b.radius, b.y)),
                   !.vy = Mul(-b.vy, BUBBLE_RESTITUTION)]
    ELSE b

\* BubbleUpdate without the test of the phase: every bubble keeps growing
BubbleUpdateAlwaysGrows(b) == Grow(b)

BubbleUpdate(b) == IF b.growing THEN Grow(b) ELSE BounceY(BounceX(Integrate(b)))

(***************************************************************************)
(* handleBubbleCollisions                                                  *)
(***************************************************************************)
\* A skip test that passes growing bubbles on to the pair resolution
SkippedOnlyPopped(b) == b.popped

\* if (a.growing || a.popped) continue, of both loops
Skipped(b) == b.growing \/ b.popped

\* The impulse of a perfectly elastic collision
ImpulseElastic(relVel) == Rnd(-((1 * SCALE + 1 * SCALE) * relVel), 2 * SCALE)

\* -(1 + BUBBLE_RESTITUTION) * relVel / 2
Impulse(relVel) == Rnd(-((1 * SCALE + BUBBLE_RESTITUTION) * relVel), 2 * SCALE)

\* The body of the inner loop for the pair (a, b) = (h[ia], h[ib]).
CollidePair(h, ia, ib) ==
    LET a == h[ia]
        b == h[ib]
        dx == b.x - a.x
        dy == b.y - a.y
        dist == Hypot(dx, dy)
        minDist == a.radius + b.radius
    IN  IF Skipped(b) THEN h
        ELSE IF (dx = 0 /\ dy = 0) \/ HypotGE(dx, dy, minDist) THEN h
        ELSE
          LET nx == Div(dx, dist)
              ny == Div(dy, dist)
              overlap == minDist - dist
              separation == Rnd(overlap, 2)
              a1 == [a EXCEPT !.x = a.x - Mul(nx, separation),
                              !.y = a.y - Mul(ny, separation)]
              b1 == [b EXCEPT !.x = b.x + Mul(nx, separation),
                              !.y = b.y + Mul(ny, separation)]
              dvx == b.vx - a.vx
              dvy == b.vy - a.vy
              relVel == Mul(dvx, nx) + Mul(dvy, ny)
              impulse == Impulse(relVel)
              a2 == [a1 EXCEPT !.vx = a1.vx - Mul(impulse, nx),
                               !.vy = a1.vy - Mul(impulse, ny)]
              b2 == [b1 EXCEPT !.vx = b1.vx + Mul(impulse, nx),
                               !.vy = b1.vy + Mul(impulse, ny)]
          IN  IF relVel > 0
              THEN [h EXCEPT ![ia] = a1, ![ib] = b1]
              ELSE [h EXCEPT ![ia] = a2, ![ib] = b2]

RECURSIVE CollideInner(_, _, _, _)
CollideInner(bs, i, j, h) ==
    IF j > Len(bs) THEN h
    ELSE CollideInner(bs, i, j + 1, CollidePair(h, bs[i], bs[j]))

RECURSIVE CollideOuter(_, _, _)
CollideOuter(bs, i, h) ==
    IF i > Len(bs) THEN h
    ELSE IF Skipped(h[bs[i]]) THEN CollideOuter(bs, i + 1, h)
    ELSE CollideOuter(bs, i + 1, CollideInner(bs, i, i + 1, h))

handleBubbleCollisions(bs, h) == CollideOuter(bs, 1, h)

(***************************************************************************)
(* State                                                                   *)
(***************************************************************************)
\* The objects the program can still reach.
Live(bs, g) == Range(bs) \cup ({g} \ {Null})

Collect(h, bs, g) == [id \in Live(bs, g) |-> h[id]]

NoEvent == [op |-> "load", x |-> 0, y |-> 0, hit |-> Null, created |-> Null,
            target |-> Null, popped |-> {}, frame |-> << >>]

\* One call made by a frame: what was called, on which ripple (its index at
\* the start of the frame) or bubble (its identity), and for a ripple drawn
\* whether delay > 0 made draw() return at once and whether it was done.
Call(ev, who, delayed, done) == [ev |-> ev, who |-> who, delayed |-> delayed, done |-> done]

KeepBorn(dom) == [id \in dom |-> hist.born[id]]

\* The runs in which the frames are observed call by call and the frame
\* counts of creation and pop are kept; the other runs leave last.frame and
\* hist as they are at load.
Traced == fuel.scenario \in {"wait", "tap", "order"}

Note(log, call) == IF Traced THEN Append(log, call) ELSE log

Init ==
    /\ bubbles = << >>
    /\ obj = << >>
    /\ growingBubble = Null
    /\ ripples = << >>
    /\ nextId = 1
    /\ fuel \in Budgets
    /\ last = NoEvent
    /\ bounced = {}
    /\ hist = [born |-> << >>, pop |-> -1]

(***************************************************************************)
(* touchstart                                                              *)
(***************************************************************************)
\* TouchPopRipples with the third delay a copy of the second
TouchPopRipplesSameDelay(b) ==
    << Ripple(b.x, b.y, Infinity, 3 * SCALE, 1, b.hue, 0),
       Ripple(b.x, b.y, Infinity, 3 * SCALE, 1, b.hue, 15),
       Ripple(b.x, b.y, Infinity, 3 * SCALE, 1, b.hue, 15) >>

TouchPopRipples(b) ==
    << Ripple(b.x, b.y, Infinity, 3 * SCALE, 1, b.hue, 0),
       Ripple(b.x, b.y, Infinity, 3 * SCALE, 1, b.hue, 15),
       Ripple(b.x, b.y, Infinity, 3 * SCALE, 1, b.hue, 30) >>

IsHit(b, x, y) == HypotLE(x - b.x, y - b.y, b.radius)

\* The reverse scan of the hit test: the index it breaks at, 0 when it runs out.
RECURSIVE ScanHit(_, _, _, _, _)
ScanHit(bs, h, x, y, i) ==
    IF i < 1 THEN 0
    ELSE IF IsHit(h[bs[i]], x, y) THEN i
    ELSE ScanHit(bs, h, x, y, i - 1)

\* HitIndex by a forward scan: the lowest index that is hit
HitIndexForward(bs, h, x, y) ==
    LET hit == {i \in 1..Len(bs) : IsHit(h[bs[i]], x, y)}
    IN  IF hit = {} THEN 0 ELSE CHOOSE i \in hit : \A k \in hit : i <= k

HitIndex(bs, h, x, y) == ScanHit(bs, h, x, y, Len(bs))

TouchStart(x, y, rnd) ==
    LET i == HitIndex(bubbles, obj, x, y)
        popped == i # 0
    IN  /\ IF popped
           THEN /\ ripples' = ripples \o TouchPopRipples(obj[bubbles[i]])
                /\ bubbles' = RemoveAt(bubbles, i)
                /\ obj' = Collect(obj, bubbles', growingBubble)
                /\ UNCHANGED <<growingBubble, nextId, fuel>>
                /\ last' = [NoEvent EXCEPT !.op = "touchstart", !.x = x, !.y = y,
                                           !.hit = bubbles[i], !.target = growingBubble]
                /\ hist' = IF Traced
                           THEN [born |-> KeepBorn(DOMAIN obj'), pop |-> fuel.ticks]
                           ELSE hist
           ELSE IF growingBubble = Null
           THEN /\ fuel.creates > 0
                /\ growingBubble' = nextId
                /\ bubbles' = Append(bubbles, nextId)
                /\ obj' = [id \in DOMAIN obj \cup {nextId} |->
                             IF id = nextId THEN Bubble(x, y, rnd) ELSE obj[id]]
                /\ nextId' = nextId + 1
                /\ fuel' = [fuel EXCEPT !.creates = fuel.creates - 1]
                /\ UNCHANGED ripples
                /\ last' = [NoEvent EXCEPT !.op = "touchstart", !.x = x, !.y = y,
                                           !.created = nextId]
                /\ hist' = IF Traced
                           THEN [hist EXCEPT !.born =
                                   [id \in DOMAIN obj' |->
                                      IF id = nextId THEN fuel.ticks ELSE hist.born[id]]]
                           ELSE hist
           ELSE /\ UNCHANGED <<bubbles, obj, growingBubble, ripples, nextId, fuel, hist>>
                /\ last' = [NoEvent EXCEPT !.op = "touchstart", !.x = x, !.y = y,
                                           !.target = growingBubble]
        /\ bounced' = bounced \cap DOMAIN obj'

(***************************************************************************)
(* touchmove                                                               *)
(***************************************************************************)
\* MoveGrowth of a whole unit
MoveGrowthWhole == 1 * SCALE

\* growingBubble.radius += 0.5 of the touchmove handler
MoveGrowth == 50

TouchMove ==
    /\ IF growingBubble # Null
       THEN /\ fuel.moves > 0
            /\ obj' = [obj EXCEPT ![growingBubble].radius = @ + MoveGrowth]
            /\ fuel' = [fuel EXCEPT !.moves = fuel.moves - 1]
       ELSE UNCHANGED <<obj, fuel>>
    /\ last' = [NoEvent EXCEPT !.op = "touchmove", !.target = growingBubble]
    /\ UNCHANGED <<bubbles, growingBubble, ripples, nextId, bounced, hist>>

(***************************************************************************)
(* touchend                                                                *)
(***************************************************************************)
\* Drift without the centring: Math.random() * 2
DriftUncentred(rnd) == Rnd(2 * rnd * SCALE, RANDOM_UNIT)

\* (Math.random() - 0.5) * 2
Drift(rnd) == Rnd((2 * rnd - RANDOM_UNIT) * SCALE, RANDOM_UNIT)

\* A release that gives the drift but leaves the bubble growing
ReleaseStillGrowing(b, rnd) == [b EXCEPT !.vx = Drift(rnd)]

\* growingBubble.growing = false; growingBubble.vx = (Math.random() - 0.5) * 2
Release(b, rnd) == [b EXCEPT !.growing = FALSE, !.vx = Drift(rnd)]

TouchEnd(rnd) ==
    /\ IF growingBubble # Null
       THEN /\ obj' = Collect([obj EXCEPT ![growingBubble] = Release(@, rnd)],
                              bubbles, Null)
            /\ growingBubble' = Null
       ELSE UNCHANGED <<obj, growingBubble>>
    /\ last' = [NoEvent EXCEPT !.op = "touchend", !.target = growingBubble]
    /\ bounced' = bounced \cap DOMAIN obj'
    /\ hist' = IF Traced THEN [hist EXCEPT !.born = KeepBorn(DOMAIN obj')] ELSE hist
    /\ UNCHANGED <<bubbles, ripples, nextId, fuel>>

(***************************************************************************)
(* animate                                                                 *)
(***************************************************************************)
\* Pop ripples that fade twice as fast
AnimatePopRipplesFastFade(b) ==
    << Ripple(b.x, b.y, Infinity, 3 * SCALE, 2, b.hue, 0),
       Ripple(b.x, b.y, Infinity, 3 * SCALE, 2, b.hue, 15),
       Ripple(b.x, b.y, Infinity, 3 * SCALE, 2, b.hue, 30) >>

AnimatePopRipples(b) ==
    << Ripple(b.x, b.y, Infinity, 3 * SCALE, 1, b.hue, 0),
       Ripple(b.x, b.y, Infinity, 3 * SCALE, 1, b.hue, 15),
       Ripple(b.x, b.y, Infinity, 3 * SCALE, 1, b.hue, 30) >>

\* The ripple loop with the draws deferred until every ripple is updated
RECURSIVE UpdateRipplesOnly(_, _, _, _)
UpdateRipplesOnly(rs, tags, log, i) ==
    IF i < 1 THEN [ripples |-> rs, tags |-> tags, log |-> log]
    ELSE LET r == RippleUpdate(rs[i])
             log1 == Append(log, Call("ripple.update", tags[i], rs[i].delay > 0, r.done))
         IN  IF r.done
             THEN UpdateRipplesOnly(RemoveAt(rs, i), RemoveAt(tags, i), log1, i - 1)
             ELSE UpdateRipplesOnly([rs EXCEPT ![i] = r], tags, log1, i - 1)

UpdateRipplesDrawLater(rs, tags, log, i) ==
    LET u == UpdateRipplesOnly(rs, tags, log, i)
    IN  [u EXCEPT !.log = u.log \o
           [k \in 1..Len(u.tags) |->
              Call("ripple.draw", u.tags[k], u.ripples[k].delay > 0, u.ripples[k].done)]]

\* The ripple loop run from index 1 upwards: after a splice the element that
\* moved into place i is passed over
RECURSIVE UpdateRipplesFrom(_, _, _, _)
UpdateRipplesFrom(rs, tags, log, i) ==
    IF i > Len(rs) THEN [ripples |-> rs, tags |-> tags, log |-> log]
    ELSE LET r == RippleUpdate(rs[i])
             log1 == Append(log, Call("ripple.update", tags[i], rs[i].delay > 0, r.done))
         IN  IF r.done
             THEN UpdateRipplesFrom(RemoveAt(rs, i), RemoveAt(tags, i), log1, i + 1)
             ELSE UpdateRipplesFrom([rs EXCEPT ![i] = r], tags,
                                    Append(log1, Call("ripple.draw", tags[i], r.delay > 0, r.done)),
                                    i + 1)

UpdateRipplesForward(rs, tags, log, i) == UpdateRipplesFrom(rs, tags, log, 1)

\* The ripple loop from index i down to 1: update, splice when done, draw
\* otherwise. tags runs beside the array and holds, for each element, its
\* index at the start of the frame.
RECURSIVE UpdateRipples(_, _, _, _)
UpdateRipples(rs, tags, log, i) ==
    IF i < 1 THEN [ripples |-> rs, tags |-> tags, log |-> log]
    ELSE LET r == RippleUpdate(rs[i])
             log1 == Note(log, Call("ripple.update", tags[i], rs[i].delay > 0, r.done))
         IN  IF r.done
             THEN UpdateRipples(RemoveAt(rs, i), RemoveAt(tags, i), log1, i - 1)
             ELSE UpdateRipples([rs EXCEPT ![i] = r], tags,
                                Note(log1, Call("ripple.draw", tags[i], r.delay > 0, r.done)),
                                i - 1)

\* The bubble loop from index i down to 1: update, spawn ripples and splice
\* when popped.
RECURSIVE UpdateBubbles(_, _, _, _, _)
UpdateBubbles(bs, h, rs, log, i) ==
    IF i < 1 THEN [bubbles |-> bs, obj |-> h, ripples |-> rs, log |-> log]
    ELSE LET b == BubbleUpdate(h[bs[i]])
             h1 == [h EXCEPT ![bs[i]] = b]
             log1 == Note(log, Call("bubble.update", bs[i], FALSE, FALSE))
         IN  IF b.popped
             THEN UpdateBubbles(RemoveAt(bs, i), h1, rs \o AnimatePopRipples(b),
                                Note(log1, Call("ripples.push", bs[i], FALSE, FALSE)), i - 1)
             ELSE UpdateBubbles(bs, h1, rs, log1, i - 1)

\* The loop that draws the remaining bubbles.
DrawBubbles(bs) == [i \in 1..Len(bs) |-> Call("bubble.draw", bs[i], FALSE, FALSE)]

\* Whether this update of b takes one of the two bounce branches.
Bounces(b) ==
    /\ ~b.growing
    /\ \/ HitsSideWall(Integrate(b))
       \/ HitsTopOrBottom(Integrate(b))

\* One frame. The results of the two loops are bound by \E over a singleton
\* so that each loop is evaluated once.
Animate ==
    /\ fuel.ticks > 0
    /\ \E rp \in {UpdateRipples(ripples, [k \in 1..Len(ripples) |-> k],
                                Note(Note(<< >>, Call("clearRect", 0, FALSE, FALSE)),
                                     Call("background", 0, FALSE, FALSE)),
                                Len(ripples))} :
       \E st \in {UpdateBubbles(bubbles, obj, rp.ripples, rp.log, Len(bubbles))} :
          LET h2 == handleBubbleCollisions(st.bubbles, st.obj)
              log3 == IF Traced
                      THEN Append(st.log, Call("handleBubbleCollisions", 0, FALSE, FALSE))
                             \o DrawBubbles(st.bubbles)
                      ELSE << >>
              gone == Range(bubbles) \ Range(st.bubbles)
          IN  /\ ripples' = st.ripples
              /\ bubbles' = st.bubbles
              /\ obj' = Collect(h2, st.bubbles, growingBubble)
              /\ last' = [NoEvent EXCEPT !.op = "animate", !.target = growingBubble,
                                         !.popped = gone, !.frame = log3]
              /\ bounced' = (bounced \cup {id \in Range(bubbles) : Bounces(obj[id])})
                               \cap DOMAIN obj'
              /\ hist' = IF Traced
                         THEN [born |-> KeepBorn(DOMAIN obj'),
                               pop |-> IF gone # {} THEN fuel.ticks - 1 ELSE hist.pop]
                         ELSE hist
    /\ fuel' = [fuel EXCEPT !.ticks = fuel.ticks - 1]
    /\ UNCHANGED <<growingBubble, nextId>>

(***************************************************************************)
(* The program: handlers and frames run one at a time, each to completion  *)
(***************************************************************************)
Next ==
    \/ \E p \in TouchPoints, rnd \in HueRandoms : TouchStart(p[1], p[2], rnd)
    \/ TouchMove
    \/ \E rnd \in DriftRandoms : TouchEnd(rnd)
    \/ Animate

Spec == Init /\ [][Next]_vars

(***************************************************************************)
(* One bubble over many frames. The finger never lifts, so only            *)
(* touchstart, touchmove and the frames run, and requestAnimationFrame     *)
(* (the last statement of animate) keeps the frames coming. Frames are     *)
(* counted from the creation of the bubble, and the budget of frames       *)
(* covers the growth of the bubble to its maximum and the whole life of    *)
(* the ripples after it. Two runs are explored: in "wait" the bubble is    *)
(* left alone, with or without touchmoves, until the frames pop it; in     *)
(* "tap" a second touch pops it at some frame. Touches that would change   *)
(* nothing are left out, and so are the frames after the first one that    *)
(* finds the lists empty.                                                  *)
(***************************************************************************)
LongMoves == 1

LongTicks == 421

FrameBudgets ==
    { [scenario |-> "wait", creates |-> 1, moves |-> LongMoves, ticks |-> LongTicks],
      [scenario |-> "tap", creates |-> 1, moves |-> 0, ticks |-> LongTicks] }

InitFrames ==
    /\ bubbles = << >>
    /\ obj = << >>
    /\ growingBubble = Null
    /\ ripples = << >>
    /\ nextId = 1
    /\ fuel \in FrameBudgets
    /\ last = NoEvent
    /\ bounced = {}
    /\ hist = [born |-> << >>, pop |-> -1]

FrameTouch(x, y, rnd) ==
    /\ TouchStart(x, y, rnd)
    /\ \/ last'.created # Null
       \/ last'.hit # Null /\ fuel.scenario = "tap"

\* A frame that found nothing to update or draw: it only cleared the canvas,
\* painted the background and called the collision pass.
IdleFrame == last.op = "animate" /\ Len(last.frame) = 3

\* The frames explored: from the creation of the bubble to the first frame
\* that finds both lists empty.
FrameDue ==
    /\ fuel.creates = 0
    /\ ~(bubbles = << >> /\ ripples = << >> /\ IdleFrame)

FrameTick ==
    /\ FrameDue
    /\ Animate

\* A frame as the count of frames shows it: of the steps of NextFrames only
\* FrameTick counts fuel.ticks down, and it does so whenever it runs.
FrameCounted ==
    /\ FrameDue
    /\ fuel.ticks > 0
    /\ fuel' = [fuel EXCEPT !.ticks = fuel.ticks - 1]

NextFrames ==
    \/ \E p \in TouchPoints, rnd \in HueRandoms : FrameTouch(p[1], p[2], rnd)
    \/ TouchMove
    \/ FrameTick

\* Each frame asks for the next one (requestAnimationFrame(animate) ends
\* animate), so a frame that is due is eventually run.
SpecFrames == InitFrames /\ [][NextFrames]_vars /\ WF_fuel(FrameCounted)

(***************************************************************************)
(* A short run of every handler in which two bubbles can be created, so    *)
(* that a frame finds ripples and a bubble together, observed call by call.*)
(***************************************************************************)
OrderCreates == 2

OrderTicks == 2

InitOrder ==
    /\ bubbles = << >>
    /\ obj = << >>
    /\ growingBubble = Null
    /\ ripples = << >>
    /\ nextId = 1
    /\ fuel = [scenario |-> "order", creates |-> OrderCreates, moves |-> 0,
               ticks |-> OrderTicks]
    /\ last = NoEvent
    /\ bounced = {}
    /\ hist = [born |-> << >>, pop |-> -1]

SpecOrder == InitOrder /\ [][Next]_vars

(***************************************************************************)
(* One pass of handleBubbleCollisions over two free bubbles, on a canvas   *)
(* large enough to hold them. The second bubble lies 30 away from the      *)
(* first along an axis or along a 3-4-5 direction, so that the distance    *)
(* and the unit normal are exact in the fixed-point unit; each velocity is *)
(* given by its speed along the line of centres, and for the first bubble  *)
(* also across it.                                                         *)
(***************************************************************************)
CollideRadii == {20 * SCALE, 25 * SCALE}

CollideOffsets ==
    { <<30 * SCALE, 0>>, <<-30 * SCALE, 0>>, <<0, 30 * SCALE>>,
      <<18 * SCALE, 24 * SCALE>>, <<-18 * SCALE, 24 * SCALE>>,
      <<24 * SCALE, -18 * SCALE>> }

\* Speeds of the first and the second bubble along the line from the first
\* to the second: four closing pairs and one separating pair.
CollideSpeeds ==
    { <<5 * SCALE, -5 * SCALE>>, <<10 * SCALE, 0>>, <<0, -10 * SCALE>>,
      <<15 * SCALE, 5 * SCALE>>, <<-5 * SCALE, 5 * SCALE>> }

CollideSideSpeeds == {0, 5 * SCALE}

CollideCentre == <<100 * SCALE, 100 * SCALE>>

FreeBubble(x, y, radius, vx, vy) ==
    [Bubble(x, y, 0) EXCEPT !.radius = radius, !.vx = vx, !.vy = vy, !.growing = FALSE]

InitCollide ==
    /\ bubbles = <<1, 2>>
    /\ \E ra \in CollideRadii, rb \in CollideRadii, d \in CollideOffsets,
          s \in CollideSpeeds, t \in CollideSideSpeeds :
          LET nx == Div(d[1], Hypot(d[1], d[2]))
              ny == Div(d[2], Hypot(d[1], d[2]))
          IN  obj = [id \in {1, 2} |->
                       IF id = 1
                       THEN FreeBubble(CollideCentre[1], CollideCentre[2], ra,
                                       Mul(s[1], nx) - Mul(t, ny), Mul(s[1], ny) + Mul(t, nx))
                       ELSE FreeBubble(CollideCentre[1] + d[1], CollideCentre[2] + d[2], rb,
                                       Mul(s[2], nx), Mul(s[2], ny))]
    /\ growingBubble = Null
    /\ ripples = << >>
    /\ nextId = 3
    /\ fuel = [scenario |-> "collide", creates |-> 0, moves |-> 0, ticks |-> 0]
    /\ last = NoEvent
    /\ bounced = {}
    /\ hist = [born |-> [id \in {1, 2} |-> 0], pop |-> -1]

CollidePass ==
    /\ last.op = "load"
    /\ obj' = handleBubbleCollisions(bubbles, obj)
    /\ last' = [NoEvent EXCEPT !.op = "collide"]
    /\ UNCHANGED <<bubbles, growingBubble, ripples, nextId, fuel, bounced, hist>>

NextCollide == CollidePass

SpecCollide == InitCollide /\ [][NextCollide]_vars

(***************************************************************************)
(* Properties                                                              *)
(***************************************************************************)
InList(id) == id \in Range(bubbles)

Removed == Range(bubbles) \ Range(bubbles')

MaxOf(S) == CHOOSE m \in S : \A k \in S : k <= m

\* The three ripples of a pop at (x, y) with hue
ThreeRipples(x, y, hue) ==
    [k \in 1..3 |->
        [x |-> x, y |-> y, radius |-> 0, maxRadius |-> Infinity,
         expandSpeed |-> 300, fadeSpeed |-> 1, hue |-> hue,
         delay |-> 15 * (k - 1), alpha |-> 100, done |-> FALSE]]

\* C1: every pop, by a touchstart hit or by over-growth in a frame, removes
\* exactly that one bubble and appends exactly three ripples at its position
\* and with its hue, radius 0, alpha 1, growth 3, fade 0.01, delays 0, 15, 30;
\* no bubble leaves the list without them, and no step without a pop adds a
\* ripple.
C1_PopSpawnsThreeRipples ==
    [][/\ Cardinality(Removed) <= 1
       /\ \A id \in Removed :
            /\ last'.op \in {"touchstart", "animate"}
            /\ Len(bubbles') = Len(bubbles) - 1
            /\ Len(ripples') >= 3
            /\ SubSeq(ripples', Len(ripples') - 2, Len(ripples'))
                 = ThreeRipples(obj[id].x, obj[id].y, obj[id].hue)
            /\ last'.op = "touchstart" =>
                 SubSeq(ripples', 1, Len(ripples') - 3) = ripples
            /\ last'.op = "animate" => Len(ripples') <= Len(ripples) + 3
       /\ Removed = {} =>
            /\ last'.op # "animate" => ripples' = ripples
            /\ last'.op = "animate" => Len(ripples') <= Len(ripples)
      ]_vars

\* a frame has just popped an over-grown bubble
C1_Witness ==
    /\ last.op = "animate"
    /\ last.popped # {}
    /\ Len(ripples) >= 3
    /\ ripples[Len(ripples)].delay = 30

\* The bubbles of the list whose circle contains the point (x, y), by index
HitsAt(x, y) ==
    {i \in 1..Len(bubbles) :
        LET b == obj[bubbles[i]]
        IN  (x - b.x) * (x - b.x) + (y - b.y) * (y - b.y) <= b.radius * b.radius}

GrowingInList == \E id \in Range(bubbles) : obj[id].growing

\* C2: a touchstart at (x, y) that hits no bubble, arriving when no bubble of
\* the list is growing, appends exactly one new growing bubble at (x, y) with
\* radius 5; a touchstart that hits a bubble creates none.
C2_TouchStartCreates ==
    [][last'.op = "touchstart" =>
        LET x == last'.x
            y == last'.y
        IN  /\ (HitsAt(x, y) = {} /\ ~GrowingInList) =>
                 /\ Len(bubbles') = Len(bubbles) + 1
                 /\ SubSeq(bubbles', 1, Len(bubbles)) = bubbles
                 /\ LET b == obj'[bubbles'[Len(bubbles')]]
                    IN  /\ b.x = x
                        /\ b.y = y
                        /\ b.radius = 5 * SCALE
                        /\ b.growing
            /\ HitsAt(x, y) # {} => Range(bubbles') \subseteq Range(bubbles)
      ]_vars

\* C3: a bubble in the growing phase is never removed from the list by a
\* touchstart.
C3_TouchStartSparesGrowing ==
    [][last'.op = "touchstart" =>
        \A id \in Range(bubbles) : obj[id].growing => id \in Range(bubbles')
      ]_vars

\* C4: a touchstart at p pops at most one bubble; when bubbles contain p
\* (distance <= radius, the boundary included) the one popped is the one with
\* the highest index, and every other bubble keeps its fields and its place
\* in the order.
C4_TouchStartPopsTopmost ==
    [][last'.op = "touchstart" =>
        LET hits == HitsAt(last'.x, last'.y)
        IN  /\ hits # {} =>
                 /\ bubbles' = RemoveAt(bubbles, MaxOf(hits))
                 /\ last'.hit = bubbles[MaxOf(hits)]
            /\ hits = {} => SubSeq(bubbles', 1, Len(bubbles)) = bubbles
            /\ \A id \in Range(bubbles) \cap Range(bubbles') : obj'[id] = obj[id]
      ]_vars

\* a touchstart has popped the upper of two bubbles that both contained the
\* point, the popped one exactly on its boundary
C4_Witness ==
    /\ last.op = "touchstart"
    /\ last.hit # Null
    /\ HitsAt(last.x, last.y) # {}
    /\ ripples # << >>
    /\ LET r == ripples[Len(ripples)]
       IN  (last.x - r.x) * (last.x - r.x) + (last.y - r.y) * (last.y - r.y)
             = (5 * SCALE) * (5 * SCALE)

\* C5: a touchend while a bubble is growing makes that bubble free with vx in
\* [-1, 1] and vy = -2, leaves its position and radius alone and clears the
\* growingBubble reference, which is null after every touchend; a free
\* bubble never becomes growing again.
C5_TouchEndReleases ==
    [][/\ last'.op = "touchend" =>
            /\ growingBubble' = Null
            /\ bubbles' = bubbles
            /\ (growingBubble # Null /\ InList(growingBubble)) =>
                 LET b == obj[growingBubble]
                     c == obj'[growingBubble]
                 IN  /\ ~c.growing
                     /\ c.vx >= -1 * SCALE
                     /\ c.vx <= 1 * SCALE
                     /\ c.vy = -2 * SCALE
                     /\ c.x = b.x
                     /\ c.y = b.y
                     /\ c.radius = b.radius
       /\ \A id \in Range(bubbles) \cap Range(bubbles') :
            ~obj[id].growing => ~obj'[id].growing
      ]_vars

\* a touchend has just released a bubble that grew beyond its first radius
C5_Witness ==
    /\ last.op = "touchend"
    /\ last.target # Null
    /\ InList(last.target)
    /\ ~obj[last.target].growing
    /\ obj[last.target].radius > 5 * SCALE
    /\ growingBubble = Null

\* The touchmove events that have grown a bubble so far in the long hold
HoldMoves == DeepMoves - fuel.moves

\* C6: a touchmove while a bubble is growing adds exactly 0.5 to that
\* bubble's radius and changes nothing else, so that n touchmoves after the
\* touchstart, with no frame in between, leave the radius at 5 + 0.5 n; a
\* touchmove when no bubble is growing changes no bubble and no ripple.
C6_TouchMoveGrowsByHalf ==
    /\ [][last'.op = "touchmove" =>
            /\ bubbles' = bubbles
            /\ ripples' = ripples
            /\ growingBubble' = growingBubble
            /\ \A id \in Range(bubbles) :
                 IF id = growingBubble
                 THEN obj'[id] = [obj[id] EXCEPT !.radius = obj[id].radius + SCALE \div 2]
                 ELSE obj'[id] = obj[id]
         ]_vars
    /\ [](( /\ fuel.scenario = "hold"
            /\ fuel.ticks = DeepTicks
            /\ growingBubble # Null
            /\ InList(growingBubble) )
          => obj[growingBubble].radius = 5 * SCALE + HoldMoves * (SCALE \div 2))

\* ten touchmoves after the touchstart, no frame yet: the radius is 10
C6_Witness ==
    /\ last.op = "touchmove"
    /\ fuel.scenario = "hold"
    /\ fuel.ticks = DeepTicks
    /\ HoldMoves = 10
    /\ growingBubble # Null
    /\ InList(growingBubble)
    /\ obj[growingBubble].radius = 10 * SCALE

\* C7: in every step, a growing bubble's radius does not decrease and a free
\* bubble's radius does not change.
C7_RadiusMonotone ==
    [][\A id \in Range(bubbles) \cap Range(bubbles') :
          /\ obj[id].growing => obj'[id].radius >= obj[id].radius
          /\ ~obj[id].growing => obj'[id].radius = obj[id].radius
      ]_vars

\* a frame has just run with a grown bubble still held and a free bubble that
\* has bounced
C7_Witness ==
    /\ last.op = "animate"
    /\ \E id \in Range(bubbles) : obj[id].growing /\ obj[id].radius > 5 * SCALE
    /\ \E id \in Range(bubbles) : ~obj[id].growing /\ id \in bounced

\* C8: a frame's Bubble.update marks a bubble popped exactly when the bubble
\* is growing and its radius after the 0.5 increment is >= 150: no bubble
\* with a radius below 150 and no free bubble is marked popped.
C8_PoppedExactlyAtMax ==
    /\ [][last'.op = "animate" =>
            \A id \in Range(bubbles) :
               (id \notin Range(bubbles'))
                  <=> (obj[id].growing /\ obj[id].radius + SCALE \div 2 >= 150 * SCALE)
         ]_vars
    /\ [](\A id \in DOMAIN obj :
            obj[id].popped => (obj[id].radius >= 150 * SCALE /\ ~InList(id)))

\* a frame has just marked popped a bubble whose radius reached 150 exactly
C8_Witness ==
    /\ last.op = "animate"
    /\ \E id \in last.popped :
         /\ id \in DOMAIN obj
         /\ obj[id].popped
         /\ obj[id].radius = 150 * SCALE

\* C9: at the end of every frame every bubble of the list has a radius
\* strictly below 150.
C9_RadiusBelowMax ==
    [][last'.op = "animate" =>
          \A id \in Range(bubbles') : obj'[id].radius < 150 * SCALE
      ]_vars

InsideCanvas(b) ==
    /\ b.radius <= b.x
    /\ b.x <= canvasWidth - b.radius
    /\ b.radius <= b.y
    /\ b.y <= canvasHeight - b.radius

\* C10: with the canvas at least twice every bubble's radius wide and high,
\* a free bubble that has bounced off a boundary in an earlier frame is, at
\* the end of every later frame (after the bubble updates and the collision
\* pass), within [radius, W - radius] x [radius, H - radius].
C10_StaysInsideAfterBounce ==
    [][last'.op = "animate" =>
          ((\A id \in Range(bubbles') :
               /\ 2 * obj'[id].radius <= canvasWidth
               /\ 2 * obj'[id].radius <= canvasHeight)
           => \A id \in bounced \cap Range(bubbles') : InsideCanvas(obj'[id]))
      ]_vars

(***************************************************************************)
(* Frames                                                                  *)
(***************************************************************************)
\* The calls of kind ev in a frame's log, in the order they were made
RECURSIVE Calls(_, _)
Calls(log, ev) ==
    IF log = << >> THEN << >>
    ELSE IF Head(log).ev = ev THEN <<Head(log)>> \o Calls(Tail(log), ev)
    ELSE Calls(Tail(log), ev)

\* Start-of-frame indices of the ripples the frame drew, i.e. did not remove
Kept(log) == {c.who : c \in Range(Calls(log, "ripple.draw"))}

\* The j-th smallest member of S
Nth(S, j) == CHOOSE k \in S : Cardinality({m \in S : m <= k}) = j

\* C11: in every frame, a ripple with delay > 0 only has its delay decremented
\* by 1, with radius and alpha unchanged and still 0 and 1; a ripple with
\* delay 0 gains exactly its growth rate in radius and loses exactly its fade
\* rate in alpha.
C11_RippleUpdateByDelay ==
    [][last'.op = "animate" =>
         LET kept == Kept(last'.frame)
         IN  \A j \in 1..Cardinality(kept) :
                LET r == ripples[Nth(kept, j)]
                    q == ripples'[j]
                IN  IF r.delay > 0
                    THEN /\ q.delay = r.delay - 1
                         /\ q.radius = r.radius /\ q.radius = 0
                         /\ q.alpha = r.alpha /\ q.alpha = 1 * SCALE
                    ELSE /\ q.delay = 0
                         /\ q.radius = r.radius + r.expandSpeed
                         /\ q.alpha = r.alpha - r.fadeSpeed]_vars

\* The 16th frame after a pop: the first ripple has faded 16 times, the
\* second has spent its delay of 15 and faded once, the third is still
\* waiting.
C11_Witness ==
    /\ last.op = "animate"
    /\ Len(ripples) = 3
    /\ ripples[1].alpha = 84 /\ ripples[1].radius = 16 * 3 * SCALE
    /\ ripples[2].delay = 0 /\ ripples[2].alpha = 99 /\ ripples[2].radius = 3 * SCALE
    /\ ripples[3].delay = 14 /\ ripples[3].alpha = 1 * SCALE /\ ripples[3].radius = 0

\* C12: a ripple leaves the list in the frame in which its alpha becomes <= 0
\* and in no earlier one; after every frame and every handler each listed
\* ripple has alpha > 0 and is not done; no done ripple is drawn.
C12_RippleRemovedWhenFaded ==
    /\ [](\A i \in DOMAIN ripples : ripples[i].alpha > 0 /\ ~ripples[i].done)
    /\ [](\A c \in Range(Calls(last.frame, "ripple.draw")) : ~c.done)
    /\ [][last'.op = "animate" =>
            \A k \in DOMAIN ripples :
               k \notin Kept(last'.frame)
                 <=> ripples[k].delay = 0 /\ ripples[k].alpha - ripples[k].fadeSpeed <= 0]_vars

\* A frame has just removed a ripple whose alpha reached 0 and drawn another.
C12_Witness ==
    /\ last.op = "animate"
    /\ \E c \in Range(Calls(last.frame, "ripple.update")) : c.done
    /\ \E c \in Range(Calls(last.frame, "ripple.draw")) : ~c.delayed
    /\ Len(ripples) = 2

(***************************************************************************)
(* Collisions                                                              *)
(***************************************************************************)
\* The velocity of b relative to a along the unit normal from a to b
NormalVelocity(a, b) ==
    LET dx == b.x - a.x
        dy == b.y - a.y
        dist == Hypot(dx, dy)
    IN  Mul(b.vx - a.vx, Div(dx, dist)) + Mul(b.vy - a.vy, Div(dy, dist))

Overlapping(a, b) ==
    /\ ~(a.x = b.x /\ a.y = b.y)
    /\ ~HypotGE(b.x - a.x, b.y - a.y, a.radius + b.radius)

\* C13: one collision pass over two free bubbles that overlap, with centres
\* apart, and approach along the line of centres leaves the centres exactly the
\* sum of the radii apart on the original line, each moved by the same amount
\* in opposite directions, and the relative normal velocity equal to
\* -restitution times what it was (so separating).
C13_CollisionSeparatesAndReflects ==
    [][last'.op = "collide" =>
         LET a == obj[bubbles[1]]
             b == obj[bubbles[2]]
             a2 == obj'[bubbles[1]]
             b2 == obj'[bubbles[2]]
             dx == b.x - a.x
             dy == b.y - a.y
             dx2 == b2.x - a2.x
             dy2 == b2.y - a2.y
             minDist == a.radius + b.radius
         IN  (Overlapping(a, b) /\ NormalVelocity(a, b) < 0) =>
                /\ dx2 * dx2 + dy2 * dy2 = minDist * minDist
                /\ dx2 * dy = dy2 * dx
                /\ dx2 * dx + dy2 * dy > 0
                /\ a2.x + b2.x = a.x + b.x
                /\ a2.y + b2.y = a.y + b.y
                /\ a2.radius = a.radius /\ b2.radius = b.radius
                /\ NormalVelocity(a2, b2) = -Mul(BUBBLE_RESTITUTION, NormalVelocity(a, b))
                /\ NormalVelocity(a2, b2) > 0]_vars

\* Two bubbles of radius 20 that were 30 apart on an oblique line and closing
\* at 10 now have their centres 40 apart and separate at 9.9.
C13_Witness ==
    /\ last.op = "collide"
    /\ obj[1].radius = 20 * SCALE /\ obj[2].radius = 20 * SCALE
    /\ obj[2].x - obj[1].x = 24 * SCALE
    /\ obj[2].y - obj[1].y = 32 * SCALE
    /\ NormalVelocity(obj[1], obj[2]) = 990

\* The places in a frame's log of the calls whose kind is in kinds
Places(log, kinds) == {i \in DOMAIN log : log[i].ev \in kinds}

\* Every call of a kind in first is made before every call of a kind in then
Precede(log, first, then) ==
    \A i \in Places(log, first), j \in Places(log, then) : i < j

UpdateCalls == {"ripple.update", "bubble.update", "ripples.push", "handleBubbleCollisions"}

\* C14 as stated: a frame updates the ripples, then the bubbles, then resolves
\* collisions, and only then renders the background, the ripples and the
\* bubbles, in that order.
C14_FrameOrderAsStated ==
    last.op = "animate" =>
        /\ Precede(last.frame, {"ripple.update"}, {"bubble.update", "ripples.push"})
        /\ Precede(last.frame, {"bubble.update", "ripples.push"}, {"handleBubbleCollisions"})
        /\ Precede(last.frame, UpdateCalls, {"background", "ripple.draw", "bubble.draw"})
        /\ Precede(last.frame, {"background"}, {"ripple.draw"})
        /\ Precede(last.frame, {"ripple.draw"}, {"bubble.draw"})

\* C14: a frame clears the canvas and renders the background first; then, for
\* each ripple from the last to the first, updates it and at once removes it
\* if done or draws it if not; then updates every bubble, spawning ripples for
\* and removing the popped ones; then resolves collisions once; then draws the
\* remaining bubbles in list order. All ripple draws precede all bubble draws,
\* and the ripples spawned by a pop are not drawn in the frame of the pop.
C14_FrameOrder ==
    last.op = "animate" =>
        LET log == last.frame
        IN  /\ Len(log) >= 3 /\ log[1].ev = "clearRect" /\ log[2].ev = "background"
            /\ Places(log, {"clearRect"}) = {1} /\ Places(log, {"background"}) = {2}
            /\ \A i \in Places(log, {"ripple.draw"}) :
                  /\ log[i - 1].ev = "ripple.update"
                  /\ log[i - 1].who = log[i].who
                  /\ ~log[i - 1].done
            /\ \A i \in Places(log, {"ripple.update"}) :
                  ~log[i].done => log[i + 1].ev = "ripple.draw"
            /\ Precede(log, {"ripple.update", "ripple.draw"}, {"bubble.update", "ripples.push"})
            /\ Precede(log, {"bubble.update", "ripples.push"}, {"handleBubbleCollisions"})
            /\ Cardinality(Places(log, {"handleBubbleCollisions"})) = 1
            /\ Precede(log, {"handleBubbleCollisions"}, {"bubble.draw"})
            /\ Precede(log, {"ripple.draw"}, {"bubble.draw"})
            /\ Calls(log, "bubble.draw") = DrawBubbles(bubbles)
            /\ Len(Calls(log, "ripple.draw"))
                  = Len(ripples) - 3 * Len(Calls(log, "ripples.push"))

\* A frame that updated and drew three ripples, at least one of them past
\* its delay, and later drew a bubble.
C14_Witness ==
    /\ last.op = "animate"
    /\ Cardinality({i \in Places(last.frame, {"ripple.draw"}) : ~last.frame[i].delayed}) >= 1
    /\ Len(Calls(last.frame, "ripple.draw")) = 3
    /\ Len(Calls(last.frame, "bubble.draw")) = 1

\* The entities named by a sequence of calls, in call order
Whos(calls) == [i \in DOMAIN calls |-> calls[i].who]

\* The updates a ripple still has to receive before it is done: its delay
\* and then one per unit of alpha (fadeSpeed is one unit for every ripple the
\* program creates).
Remaining(r) == r.delay + r.alpha

SameMotion(a, b) == a.x = b.x /\ a.y = b.y /\ a.vx = b.vx /\ a.vy = b.vy

\* C16: no frame and no handler changes x, y, vx or vy of a listed bubble
\* that is growing before and after it, and a frame leaves a free bubble whose
\* only neighbours are growing exactly where its own update put it.
C16_GrowingStaysAnchored ==
    [][/\ \A id \in Range(bubbles) \cap Range(bubbles') :
            (obj[id].growing /\ obj'[id].growing) => SameMotion(obj'[id], obj[id])
       /\ last'.op = "animate" =>
            \A id \in Range(bubbles') :
               (/\ ~obj[id].growing
                /\ \A other \in Range(bubbles') \ {id} : obj[other].growing)
                 => SameMotion(obj'[id], BubbleUpdate(obj[id]))]_vars

\* A frame has run over a free bubble and a growing bubble that overlap; the
\* growing one still has the position and velocity it was created with.
C16_Witness ==
    /\ last.op = "animate"
    /\ \E f \in Range(bubbles), g \in Range(bubbles) :
          /\ ~obj[f].growing /\ obj[g].growing
          /\ Overlapping(obj[f], obj[g])
          /\ obj[g].radius > InitialRadius
          /\ \E p \in TouchPoints : obj[g].x = p[1] /\ obj[g].y = p[2]
          /\ obj[g].vx = 0 /\ obj[g].vy = InitialVy

\* C17: growingBubble is null or refers to a bubble that is in the list and
\* growing, never to a bubble already removed.
C17_GrowingRefIsListed ==
    growingBubble # Null => InList(growingBubble) /\ obj[growingBubble].growing

\* C20: at most one listed bubble is growing, and a listed bubble that is
\* growing is the one growingBubble refers to.
C20_OneGrowingAndHeld ==
    /\ Cardinality({id \in Range(bubbles) : obj[id].growing}) <= 1
    /\ \A id \in Range(bubbles) : obj[id].growing => growingBubble = id

\* A touchmove has just grown the held bubble while a released one floats.
C20_Witness ==
    /\ last.op = "touchmove"
    /\ Len(bubbles) = 2
    /\ ~obj[bubbles[1]].growing
    /\ obj[bubbles[2]].growing
    /\ growingBubble = bubbles[2]
    /\ obj[bubbles[2]].radius = InitialRadius + MoveGrowth

(***************************************************************************)
(* Long runs                                                               *)
(***************************************************************************)
\* Frames run since bubble id was created
Age(id) == hist.born[id] - fuel.ticks

\* touchmoves made on the held bubble so far
MovesMade == IF fuel.scenario = "wait" THEN LongMoves - fuel.moves ELSE 0

\* The steps that count a frame are the steps that run animate.
FramesAreCounted == [][FrameCounted <=> last'.op = "animate"]_vars

\* C18: a bubble that is created and then neither released nor hit is
\* eventually popped by a frame, which removes it and appends its three
\* ripples; it is removed in the frame in which the frames since its creation
\* plus the touchmoves made reach 290, so in the 290th frame when there were
\* no touchmoves and earlier when there were.
C18_HeldBubbleAutoPops ==
    /\ [][last'.op = "animate" =>
            \A id \in Range(bubbles) :
               /\ id \in last'.popped <=> Age(id) + 1 + MovesMade >= 290
               /\ id \in last'.popped =>
                     /\ ~InList(id)'
                     /\ Len(ripples') >= 3
                     /\ SubSeq(ripples', Len(ripples') - 2, Len(ripples'))
                          = ThreeRipples(obj[id].x, obj[id].y, obj[id].hue)]_vars
    /\ (\E id \in Range(bubbles) : obj[id].growing)
          ~> (last.op = "animate" /\ last.popped # {}) \/ last.hit # Null

\* The 290th frame after its creation has just popped a bubble that no
\* touchmove had grown.
C18_Witness ==
    /\ last.op = "animate"
    /\ last.popped # {}
    /\ bubbles = << >>
    /\ Len(ripples) = 3
    /\ fuel.scenario = "wait" /\ fuel.moves = LongMoves
    /\ fuel.ticks = LongTicks - 290

\* Frames run since the last pop
TicksSincePop == hist.pop - fuel.ticks

\* The delays of the pop ripples that are still listed t frames after the pop
\* if the ripple of delay d is removed by its (d + 100)th update
DelaysLeft(t) == {d \in {0, 15, 30} : t < d + 100}

\* C19: every ripple is eventually removed; the pop ripple of delay d is
\* removed by the (d + 100)th frame that updates it and by no other, so after
\* a pop the list is empty from the 130th frame on.
C19_RipplesFadeOut ==
    /\ [](hist.pop >= 0 =>
            /\ Len(ripples) = Cardinality(DelaysLeft(TicksSincePop))
            /\ {Remaining(ripples[i]) : i \in DOMAIN ripples}
                 = {d + 100 - TicksSincePop : d \in DelaysLeft(TicksSincePop)}
            /\ TicksSincePop >= 130 => ripples = << >>)
    /\ [][(hist.pop >= 0 /\ ripples = << >>) => ripples' = << >>]_vars
    /\ (ripples # << >>) ~> (ripples = << >>)

\* The 130th frame after the pop has just removed the last ripple, and the
\* frame after it found nothing.
C19_Witness ==
    /\ IdleFrame
    /\ ripples = << >>
    /\ bubbles = << >>
    /\ TicksSincePop = 131

====
